---------------------------- MODULE Spec2Model ----------------------------
(***************************************************************************)
(* A model of src/gpt.rs of femtoGPT: the sampling procedure (select), the *)
(* generation loop (GPT::infer), the graph builder (GPT::new), the corpus  *)
(* sampler (sample_dataset), the embedding-gradient reconciler (unembed)   *)
(* and the data-parallel training loop (GPT::train, GPT::save).            *)
(*                                                                         *)
(* f32 values are modelled as exact rationals <<n, d>> (d > 0, lowest      *)
(* terms); <<0, 0>> is NaN.  Rounding of f32 arithmetic is not modelled.   *)
(***************************************************************************)
EXTENDS Integers, Sequences, FiniteSets, TLC

VARIABLES
    \* select
    sel_t, sel_temperature, sel_dice, sel_result,
    \* GPT::infer
    num_tokens, vocab_size, prompt, count, temperature, context, cnt, chs,
    iter, ipc,
    \* sample_dataset
    dataset, batch_size, context_size, xs, ys, starts, spc,
    \* unembed
    u_s, u_s_result, u_embedding, u_pc,
    \* GPT::new
    hp, g, params, loc, layer, head, hidden, npc,
    \* GPT::train
    t_dataset, num_batches, t_batch_size, i, graph, optimizer, train_data,
    workers, begin, tpc

selectVars == <<sel_t, sel_temperature, sel_dice, sel_result>>
inferVars == <<num_tokens, vocab_size, prompt, count, temperature, context,
               cnt, chs, iter, ipc>>
sampleVars == <<dataset, batch_size, context_size, xs, ys, starts, spc>>
unembedVars == <<u_s, u_s_result, u_embedding, u_pc>>
newVars == <<hp, g, params, loc, layer, head, hidden, npc>>
trainVars == <<t_dataset, num_batches, t_batch_size, i, graph, optimizer,
               train_data, workers, begin, tpc>>
vars == <<selectVars, inferVars, sampleVars, unembedVars, newVars, trainVars>>

notSelectVars == <<inferVars, sampleVars, unembedVars, newVars, trainVars>>
notInferVars == <<selectVars, sampleVars, unembedVars, newVars, trainVars>>
notSampleVars == <<selectVars, inferVars, unembedVars, newVars, trainVars>>
notUnembedVars == <<selectVars, inferVars, sampleVars, newVars, trainVars>>
notNewVars == <<selectVars, inferVars, sampleVars, unembedVars, trainVars>>
notTrainVars == <<selectVars, inferVars, sampleVars, unembedVars, newVars>>

(***************************************************************************)
(* Bounds of the model.                                                    *)
(***************************************************************************)
MaxVocab == 2
MaxTokens == 3
MaxWindow == 2
MaxCount == 3
MaxSelVocab == 4
DiceGrid == 4
MaxData == 3
MaxBatch == 2
MaxSteps == 2
TrainTokens == 2
TrainDim == 1
MaxLayers == 2
MaxHeads == 2
MaxHiddens == 1
MaxDim == 2
CkptExtra == 2

(***************************************************************************)
(* Constants of the program.                                               *)
(***************************************************************************)
KeyScale == 1000
CheckpointEvery == 50

(***************************************************************************)
(* Sequences.                                                              *)
(***************************************************************************)
Range(s) == {s[k] : k \in DOMAIN s}

SeqsUpTo(S, lo, hi) == UNION {[1..n -> S] : n \in lo..hi}

RECURSIVE SumSeq(_)
SumSeq(s) == IF s = <<>> THEN 0 ELSE Head(s) + SumSeq(Tail(s))

Reverse(s) == [k \in 1..Len(s) |-> s[Len(s) + 1 - k]]

(***************************************************************************)
(* f32 arithmetic as used by gpt.rs, on exact rationals.                   *)
(***************************************************************************)
RECURSIVE GCD(_, _)
GCD(a, b) == IF b = 0 THEN a ELSE GCD(b, a % b)

NaN == <<0, 0>>
IsNaN(a) == a[2] = 0
Rat(n, d) == IF d = 0 THEN NaN
             ELSE LET k == GCD(n, d) IN <<n \div k, d \div k>>
Zero == <<0, 1>>
One == <<1, 1>>
Int2F(n) == <<n, 1>>

FAdd(a, b) == IF IsNaN(a) \/ IsNaN(b) THEN NaN
              ELSE Rat(a[1] * b[2] + b[1] * a[2], a[2] * b[2])
FMul(a, b) == IF IsNaN(a) \/ IsNaN(b) THEN NaN
              ELSE Rat(a[1] * b[1], a[2] * b[2])
\* a / b on f32: 0/0 is NaN (x/0 for x > 0 is +inf and does not arise here)
FDiv(a, b) == IF IsNaN(a) \/ IsNaN(b) \/ b[1] = 0 THEN NaN
              ELSE Rat(a[1] * b[2], a[2] * b[1])
\* a < b on f32: false whenever an operand is NaN
FLt(a, b) == ~IsNaN(a) /\ ~IsNaN(b) /\ a[1] * b[2] < b[1] * a[2]
\* (a as usize): truncation; NaN casts to 0
AsUsize(a) == IF IsNaN(a) THEN 0 ELSE a[1] \div a[2]

(***************************************************************************)
(* select (gpt.rs 74-91).                                                  *)
(***************************************************************************)
\* A logit: a finite value l (here 0, 1 or 2), -inf or NaN.
Fin(l) == <<"fin", l>>
NEG_INFINITY == <<"ninf", 0>>
NAN == <<"nan", 0>>

\* e^x in thousandths, for the finite logits of the model; e^-inf = 0.
ExpMilli(x) == IF x[1] = "ninf" THEN 0
               ELSE CASE x[2] = 0 -> 1000
                      [] x[2] = 1 -> 2718
                      [] x[2] = 2 -> 7389

\* Softmax::run on one row: exp(l_i) / sum_j exp(l_j).  A NaN logit makes the
\* sum, and so every probability, NaN; a row of -inf only gives 0/0 = NaN.
Softmax(row) ==
    LET w == [k \in DOMAIN row |-> IF row[k] = NAN THEN 0 ELSE ExpMilli(row[k])]
        total == IF \E k \in DOMAIN row : row[k] = NAN THEN NaN
                 ELSE Int2F(SumSeq(w))
    IN [k \in DOMAIN row |-> FDiv(Int2F(w[k]), total)]

\* the sort key of line 81: (b * 1000.) as usize
SortKey(b) == AsUsize(FMul(b, Int2F(KeyScale)))

\* Vec::sort_by_key is a stable sort, ascending in the key: insertion of the
\* elements, in order, each after the last element whose key is not larger.
RECURSIVE InsertByKey(_, _)
InsertByKey(sorted, e) ==
    IF sorted = <<>> THEN <<e>>
    ELSE IF SortKey(sorted[Len(sorted)][2]) <= SortKey(e[2])
         THEN Append(sorted, e)
    ELSE Append(InsertByKey(SubSeq(sorted, 1, Len(sorted) - 1), e),
                sorted[Len(sorted)])

RECURSIVE SortByKey(_)
SortByKey(s) ==
    IF s = <<>> THEN <<>>
    ELSE InsertByKey(SortByKey(SubSeq(s, 1, Len(s) - 1)), s[Len(s)])

Ok(v) == <<"ok", v>>
Panic == <<"panic", 0>>
None == <<"none", 0>>

\* a scan that compares dice with each probability alone, without "accum +="
RECURSIVE ScanNoAccum(_, _, _, _)
ScanNoAccum(rev, k, accum, dice) ==
    IF k > Len(rev) THEN Panic
    ELSE IF FLt(dice, rev[k][2]) THEN Ok(rev[k][1])
    ELSE ScanNoAccum(rev, k + 1, accum, dice)

\* the scan of lines 83-90 over ts.iter().rev(), from position k of rev on
RECURSIVE Scan(_, _, _, _)
Scan(rev, k, accum, dice) ==
    IF k > Len(rev) THEN Panic
    ELSE LET acc == FAdd(accum, rev[k][2])
         IN IF FLt(dice, acc) THEN Ok(rev[k][1])
            ELSE Scan(rev, k + 1, acc, dice)

\* the sorted pairs without the .rev() of line 83
ScanOrderAscending(t) ==
    LET p == Softmax(t)
        ts == [k \in DOMAIN p |-> <<k - 1, p[k]>>]
    IN SortByKey(ts)

\* the scan order: ts sorted by key, reversed
ScanOrder(t) ==
    LET p == Softmax(t)
        ts == [k \in DOMAIN p |-> <<k - 1, p[k]>>]
    IN Reverse(SortByKey(ts))

Select(t, temp, dice) == Scan(ScanOrder(t), 1, Zero, dice)

Logits == {Fin(0), Fin(1), Fin(2), NEG_INFINITY, NAN}
Temperatures == {Rat(1, 2), One, Rat(3, 2)}
\* rng.gen_range(0.0..temperature): the grid points of [0, temperature)
Draws(temp) ==
    {d \in {Rat(n, DiceGrid) : n \in 0..(2 * DiceGrid)} : FLt(d, temp)}

InitSelect ==
    /\ sel_t \in SeqsUpTo(Logits, 1, MaxSelVocab)
    /\ sel_temperature \in Temperatures
    /\ sel_dice = None
    /\ sel_result = None

DoSelect ==
    /\ sel_result = None
    /\ \E d \in Draws(sel_temperature) :
        /\ sel_dice' = d
        /\ sel_result' = Select(sel_t, sel_temperature, d)
    /\ UNCHANGED <<sel_t, sel_temperature>>
    /\ UNCHANGED notSelectVars

IdleSelect ==
    /\ sel_t = <<>> /\ sel_temperature = One /\ sel_dice = None /\ sel_result = None


(***************************************************************************)
(* GPT::infer (gpt.rs 358-395).                                            *)
(***************************************************************************)
\* an append that overwrites the last slot of a full window without remove(0)
AdvanceNoShift(ctx, c, T, next_ch) ==
    IF c = T
    THEN [context |-> [ctx EXCEPT ![T] = next_ch], cnt |-> T]
    ELSE [context |-> [ctx EXCEPT ![c + 1] = next_ch], cnt |-> c + 1]

\* lines 386-392 with the window full or not: the new window and cursor
Advance(ctx, c, T, next_ch) ==
    LET shifted == IF c = T THEN Append(Tail(ctx), 0) ELSE ctx \* remove(0); push(0)
        c1 == IF c = T THEN c - 1 ELSE c
    IN [context |-> [shifted EXCEPT ![c1 + 1] = next_ch], \* context[cnt] = next_ch
        cnt |-> c1 + 1]

\* the logits rows the forward pass may leave in the output node: one per
\* id, with that id's logit above the others
InferRows(V) == {[k \in 1..V |-> IF k = id + 1 THEN Fin(2) ELSE Fin(0)] : id \in 0..(V - 1)}

InitInfer ==
    /\ num_tokens \in 1..MaxWindow
    /\ vocab_size = MaxVocab
    /\ prompt \in SeqsUpTo(0..(vocab_size - 1), 0, num_tokens + 1)
    /\ count \in 0..MaxCount
    /\ temperature \in {One, Rat(3, 2)}
    /\ context = <<>>
    /\ cnt = 0
    /\ chs = <<>>
    /\ iter = 0
    /\ ipc = "start"

\* lines 366-375: the window is zero-filled and the prompt copied in;
\* copy_from_slice panics when the prompt is longer than the window, and
\* binding the positions may fail
InferBegin ==
    /\ ipc = "start"
    /\ \/ /\ Len(prompt) > num_tokens
          /\ ipc' = "panic"
          /\ UNCHANGED <<context, cnt, chs>>
       \/ /\ Len(prompt) <= num_tokens
          /\ ipc' = "err"
          /\ cnt' = Len(prompt)
          /\ context' = [k \in 1..num_tokens |->
                            IF k <= Len(prompt) THEN prompt[k] ELSE 0]
          /\ UNCHANGED chs
       \/ /\ Len(prompt) <= num_tokens
          /\ ipc' = "loop"
          /\ cnt' = Len(prompt)
          /\ context' = [k \in 1..num_tokens |->
                            IF k <= Len(prompt) THEN prompt[k] ELSE 0]
          /\ chs' = prompt
    /\ UNCHANGED <<num_tokens, vocab_size, prompt, count, temperature, iter>>
    /\ UNCHANGED notInferVars

\* one iteration of the loop of lines 376-393
InferStep ==
    /\ ipc = "loop"
    /\ iter < count
    /\ \/ \* embed or forward fails
          /\ ipc' = "err"
          /\ UNCHANGED <<context, cnt, chs, iter>>
       \/ \* cnt - 1 with cnt = 0: an overflow panic, or (unchecked) an index
          \* no row has, which get() refuses
          /\ cnt = 0
          /\ ipc' \in {"panic", "err"}
          /\ UNCHANGED <<context, cnt, chs, iter>>
       \/ /\ cnt > 0
          /\ \E row \in InferRows(vocab_size), d \in Draws(temperature) :
                LET r == Select(row, temperature, d)
                    a == Advance(context, cnt, num_tokens, r[2])
                IN IF r = Panic
                   THEN /\ ipc' = "panic"
                        /\ UNCHANGED <<context, cnt, chs, iter>>
                   ELSE /\ chs' = Append(chs, r[2])
                        /\ context' = a.context
                        /\ cnt' = a.cnt
                        /\ iter' = iter + 1
                        /\ ipc' = "loop"
    /\ UNCHANGED <<num_tokens, vocab_size, prompt, count, temperature>>
    /\ UNCHANGED notInferVars

\* line 394
InferReturn ==
    /\ ipc = "loop"
    /\ iter = count
    /\ ipc' = "done"
    /\ UNCHANGED <<num_tokens, vocab_size, prompt, count, temperature, context,
                   cnt, chs, iter>>
    /\ UNCHANGED notInferVars

IdleInfer ==
    /\ num_tokens = 0 /\ vocab_size = 0 /\ prompt = <<>> /\ count = 0
    /\ temperature = One /\ context = <<>> /\ cnt = 0 /\ chs = <<>>
    /\ iter = 0 /\ ipc = "idle"


(***************************************************************************)
(* sample_dataset (gpt.rs 26-51).                                          *)
(***************************************************************************)
\* Iterator::cycle over the corpus: the position after the one at pos
\* (1-based), starting over after the last
CycleNext(d, pos) == IF pos = Len(d) THEN 1 ELSE pos + 1

\* .skip(k): the position reached from pos after k elements
RECURSIVE CycleSkip(_, _, _)
CycleSkip(d, pos, k) == IF k = 0 THEN pos ELSE CycleSkip(d, CycleNext(d, pos), k - 1)

\* .take(k).cloned().collect() from pos on
RECURSIVE CycleTake(_, _, _)
CycleTake(d, pos, k) ==
    IF k = 0 THEN <<>>
    ELSE <<d[pos]>> \o CycleTake(d, CycleNext(d, pos), k - 1)

\* a sample whose target slice is not shifted by one
SampleAtNoShift(d, start, size) ==
    LET all == CycleTake(d, CycleSkip(d, 1, start), size + 1)
    IN [xs |-> SubSeq(all, 1, size), ys |-> SubSeq(all, 1, size)]

\* lines 36-44 for one sample: the window of context_size + 1 ids from start
\* and its two slices
SampleAt(d, start, size) ==
    LET all == CycleTake(d, CycleSkip(d, 1, start), size + 1)
    IN [xs |-> SubSeq(all, 1, size), ys |-> SubSeq(all, 2, size + 1)]

Tokens == 0..(MaxVocab - 1)

InitSample ==
    /\ dataset \in SeqsUpTo(Tokens, 0, MaxData)
    /\ batch_size \in 0..MaxBatch
    /\ context_size \in 0..MaxTokens
    /\ xs = <<>>
    /\ ys = <<>>
    /\ starts = <<>>
    /\ spc = "loop"

\* one iteration of the loop of lines 34-45; gen_range panics on the empty
\* range of an empty corpus
SampleOne ==
    /\ spc = "loop"
    /\ Len(starts) < batch_size
    /\ IF dataset = <<>>
       THEN /\ spc' = "panic"
            /\ UNCHANGED <<xs, ys, starts>>
       ELSE \E start \in 0..(Len(dataset) - 1) :
              LET smp == SampleAt(dataset, start, context_size)
              IN /\ xs' = xs \o smp.xs
                 /\ ys' = ys \o smp.ys
                 /\ starts' = Append(starts, start)
                 /\ spc' = "loop"
    /\ UNCHANGED <<dataset, batch_size, context_size>>
    /\ UNCHANGED notSampleVars

\* lines 47-50
SampleReturn ==
    /\ spc = "loop"
    /\ Len(starts) = batch_size
    /\ spc' = "done"
    /\ UNCHANGED <<dataset, batch_size, context_size, xs, ys, starts>>
    /\ UNCHANGED notSampleVars

IdleSample ==
    /\ dataset = <<>> /\ batch_size = 0 /\ context_size = 0 /\ xs = <<>>
    /\ ys = <<>> /\ starts = <<>> /\ spc = "idle"

(***************************************************************************)
(* unembed (gpt.rs 54-72).  A tensor [rows, E] is a sequence of rows, a row *)
(* a sequence of E values; table row of id ch is at index ch + 1.          *)
(***************************************************************************)
\* &avg + v, elementwise; Tensor::scalar(0.) broadcasts to the row's shape
RowAdd(avg, v) == [e \in DOMAIN v |-> FAdd(IF avg = <<>> THEN Zero ELSE avg[e], v[e])]
RowScale(v, c) == [e \in DOMAIN v |-> FMul(v[e], c)]

RECURSIVE RowSum(_, _)
RowSum(avg, vals) ==
    IF vals = <<>> THEN avg ELSE RowSum(RowAdd(avg, Head(vals)), Tail(vals))

\* lines 59-62: embeds[ch], the rows of s_result at the positions bound to ch,
\* in position order
RECURSIVE Embeds(_, _, _)
Embeds(s, s_result, ch) ==
    IF s = <<>> THEN <<>>
    ELSE (IF Head(s) = ch THEN <<Head(s_result)>> ELSE <<>>)
         \o Embeds(Tail(s), Tail(s_result), ch)

\* the sum of one id's rows, without the division of line 66
GroupSum(vals) == RowSum(<<>>, vals)

\* lines 64-68: the value written for one id
GroupAvg(vals) == RowScale(RowSum(<<>>, vals), FDiv(One, Int2F(Len(vals))))

\* lines 63-70 for the ids of W: row ch of the table is set to its average
SetRows(s, s_result, embedding, W) ==
    [r \in DOMAIN embedding |->
        IF (r - 1) \in W THEN GroupAvg(Embeds(s, s_result, r - 1))
        ELSE embedding[r]]

\* the whole function: Err when get_mut refuses an id the table has no row
\* for (the rows set before it was reached depend on the map's order)
Unembed(s, s_result, embedding) ==
    IF \A k \in DOMAIN s : s[k] < Len(embedding)
    THEN [ok |-> TRUE, embedding |-> SetRows(s, s_result, embedding, Range(s))]
    ELSE [ok |-> FALSE, embedding |-> embedding]

ZeroRow(E) == [e \in 1..E |-> Zero]
Zeros(rows, E) == [r \in 1..rows |-> ZeroRow(E)]

\* the gradient rows backward may produce, of width E
GradRows(E) == {ZeroRow(E), [e \in 1..E |-> One], [e \in 1..E |-> Int2F(e)]}

InitUnembed ==
    /\ \E T \in 1..MaxTokens, E \in 1..MaxDim :
        /\ u_s \in [1..T -> 0..MaxVocab]
        /\ u_s_result \in [1..T -> GradRows(E)]
        /\ u_embedding = Zeros(MaxVocab, E)
    /\ u_pc = "call"

DoUnembed ==
    /\ u_pc = "call"
    /\ LET r == Unembed(u_s, u_s_result, u_embedding)
       IN IF r.ok
          THEN /\ u_embedding' = r.embedding
               /\ u_pc' = "ok"
          ELSE /\ \E W \in SUBSET {ch \in Range(u_s) : ch < Len(u_embedding)} :
                    u_embedding' = SetRows(u_s, u_s_result, u_embedding, W)
               /\ u_pc' = "err"
    /\ UNCHANGED <<u_s, u_s_result>>
    /\ UNCHANGED notUnembedVars

IdleUnembed ==
    /\ u_s = <<>> /\ u_s_result = <<>> /\ u_embedding = <<>> /\ u_pc = "idle"


(***************************************************************************)
(* GPT::new (gpt.rs 94-233) and GPT::num_params (235-240).  The graph g is *)
(* the sequence of its tensors; a tensor's id is its index, from 0, and    *)
(* both alloc_rand and call add one tensor.                                *)
(***************************************************************************)
\* g.alloc_rand(rng, shape): a tensor of the shape's element count
AllocRand(gr, name, size) ==
    Append(gr, [name |-> name, size |-> size, alloc |-> TRUE])

\* g.call(op, inputs)?: the node of the result
Call(gr, op) == Append(gr, [name |-> op, size |-> 0, alloc |-> FALSE])

RECURSIVE Calls(_, _)
Calls(gr, ops) == IF ops = <<>> THEN gr ELSE Calls(Call(gr, Head(ops)), Tail(ops))

\* the id of the tensor added last
LastId(gr) == Len(gr) - 1

InitNew ==
    /\ hp \in [V : 1..MaxDim, E : 1..MaxDim, T : 1..MaxDim, S : 1..MaxDim,
               L : 0..MaxLayers, H : 0..MaxHeads, F : 0..MaxHiddens]
    /\ g = <<>>
    /\ params = <<>>
    /\ loc = <<>>
    /\ layer = 0
    /\ head = 0
    /\ hidden = 0
    /\ npc = "start"

\* lines 106-120
NewEmbeddings ==
    /\ npc = "start"
    /\ LET g1 == AllocRand(g, "token_embedding", hp.V * hp.E)
           g2 == AllocRand(g1, "pos_embedding", hp.T * hp.E)
           g3 == AllocRand(g2, "token_input", hp.T * hp.E)
           g4 == AllocRand(g3, "pos_input", hp.T * hp.E)
       IN /\ g' = Call(g4, "Add")
          /\ params' = <<LastId(g1), LastId(g2)>>
    /\ npc' = "layer"
    /\ UNCHANGED <<hp, loc, layer, head, hidden>>
    /\ UNCHANGED notNewVars

\* lines 121-128
NewLayerNorm ==
    /\ npc = "layer"
    /\ layer < hp.L
    /\ LET g1 == AllocRand(g, "norm_coeff", hp.E)
           g2 == AllocRand(g1, "norm_bias", hp.E)
       IN /\ g' = Call(g2, "LayerNorm")
          /\ params' = params \o <<LastId(g1), LastId(g2)>>
    /\ head' = 0
    /\ npc' = "heads"
    /\ UNCHANGED <<hp, loc, layer, hidden>>
    /\ UNCHANGED notNewVars

\* lines 131-153, one head
HeadParams(ps, k, q, v) == ps \o <<k, q, v>>

NewHead ==
    /\ npc = "heads"
    /\ head < hp.H
    /\ LET g1 == AllocRand(g, "k_params", hp.E * hp.S)
           g2 == AllocRand(g1, "q_params", hp.E * hp.S)
           g3 == AllocRand(g2, "v_params", hp.E * hp.S)
       IN /\ g' = Calls(g3, <<"MatMul", "MatMul", "MatMul", "Transpose",
                              "MatMul", "Coeff", "Mask", "Softmax", "Dropout",
                              "MatMul">>)
          /\ params' = HeadParams(params, LastId(g1), LastId(g2), LastId(g3))
    /\ head' = head + 1
    /\ UNCHANGED <<hp, loc, layer, hidden, npc>>
    /\ UNCHANGED notNewVars

\* lines 155-180; Cat of no head at all may be refused
NewProj ==
    /\ npc = "heads"
    /\ head = hp.H
    /\ \/ /\ hp.H = 0
          /\ npc' = "err"
          /\ UNCHANGED <<g, loc, hidden>>
       \/ LET g1 == Call(g, "Cat")
              g2 == AllocRand(g1, "proj_params", hp.H * hp.S * hp.E)
              g3 == AllocRand(g2, "proj_bias_params", hp.E)
              g4 == Calls(g3, <<"MatMul", "Add", "Dropout", "Add">>)
              g5 == AllocRand(g4, "add_atten_norm_coeff", hp.E)
              g6 == AllocRand(g5, "add_atten_norm_bias", hp.E)
              g7 == Call(g6, "LayerNorm")
              g8 == AllocRand(g7, "lin1_params", hp.E * 4 * hp.E)
              g9 == AllocRand(g8, "bias1_params", 4 * hp.E)
          IN /\ g' = Calls(g9, <<"MatMul", "Add", "Relu">>)
             /\ loc' = [proj_params |-> LastId(g2),
                        proj_bias_params |-> LastId(g3),
                        add_atten_norm_coeff |-> LastId(g5),
                        add_atten_norm_bias |-> LastId(g6),
                        lin1_params |-> LastId(g8),
                        bias1_params |-> LastId(g9)]
             /\ hidden' = 0
             /\ npc' = "hiddens"
    /\ UNCHANGED <<hp, params, layer, head>>
    /\ UNCHANGED notNewVars

\* a hidden stage that does not push its two parameters
HiddenParamsForgotten(ps, lin, bias) == ps

\* lines 181-188, one hidden stage
HiddenParams(ps, lin, bias) == ps \o <<lin, bias>>

NewHidden ==
    /\ npc = "hiddens"
    /\ hidden < hp.F
    /\ LET g1 == AllocRand(g, "lin_params", 4 * hp.E * 4 * hp.E)
           g2 == AllocRand(g1, "bias_params", 4 * hp.E)
       IN /\ g' = Calls(g2, <<"MatMul", "Add", "Relu">>)
          /\ params' = HiddenParams(params, LastId(g1), LastId(g2))
    /\ hidden' = hidden + 1
    /\ UNCHANGED <<hp, loc, layer, head, npc>>
    /\ UNCHANGED notNewVars

\* lines 194-203
LayerParams(ps, l, lin2, bias2) ==
    ps \o <<l.proj_params, l.proj_bias_params, l.lin1_params, l.bias1_params,
            lin2, bias2, l.add_atten_norm_coeff, l.add_atten_norm_bias>>

\* lines 189-205
NewLayerEnd ==
    /\ npc = "hiddens"
    /\ hidden = hp.F
    /\ LET g1 == AllocRand(g, "lin2_params", 4 * hp.E * hp.E)
           g2 == AllocRand(g1, "bias2_params", hp.E)
       IN /\ g' = Calls(g2, <<"MatMul", "Add", "Add">>)
          /\ params' = LayerParams(params, loc, LastId(g1), LastId(g2))
    /\ loc' = <<>>
    /\ layer' = layer + 1
    /\ npc' = "layer"
    /\ UNCHANGED <<hp, head, hidden>>
    /\ UNCHANGED notNewVars

\* lines 208-232
NewFinish ==
    /\ npc = "layer"
    /\ layer = hp.L
    /\ LET g1 == AllocRand(g, "norm_out_coeff", hp.E)
           g2 == AllocRand(g1, "norm_out_bias", hp.E)
           g3 == Call(g2, "LayerNorm")
           g4 == AllocRand(g3, "to_vocab", hp.E * hp.V)
           g5 == AllocRand(g4, "to_vocab_bias", hp.V)
       IN /\ g' = Calls(g5, <<"MatMul", "Add">>)
          /\ params' = params \o <<LastId(g1), LastId(g2), LastId(g4), LastId(g5)>>
    /\ npc' = "done"
    /\ UNCHANGED <<hp, loc, layer, head, hidden>>
    /\ UNCHANGED notNewVars

\* GPT::num_params: the sum over params of graph.get(p).size()
RECURSIVE SizeSum(_, _)
SizeSum(gr, ps) ==
    IF ps = <<>> THEN 0 ELSE gr[Head(ps) + 1].size + SizeSum(gr, Tail(ps))

NumParams == SizeSum(g, params)

IdleNew ==
    /\ hp = <<>> /\ g = <<>> /\ params = <<>> /\ loc = <<>> /\ layer = 0
    /\ head = 0 /\ hidden = 0 /\ npc = "idle"


(***************************************************************************)
(* GPT::train (gpt.rs 271-356) and GPT::save (260-269).                    *)
(*                                                                         *)
(* The trained model has three parameters: the two embedding tables and    *)
(* one ordinary tensor.  A parameter's value is abstracted to the number   *)
(* of optimizer updates that produced it; gradients are tensors.  The      *)
(* embedding width is 1.                                                   *)
(***************************************************************************)
TrainParams == <<"token_embedding", "pos_embedding", "norm_out_bias">>
ParamIds == Range(TrainParams)

ParamRows(p) == CASE p = "token_embedding" -> MaxVocab
                  [] p = "pos_embedding" -> TrainTokens
                  [] p = "norm_out_bias" -> 1

ZeroGrads == [p \in ParamIds |-> Zeros(ParamRows(p), TrainDim)]

\* Graph::clone: an independent copy with the same values and gradients
CloneGraph(gr) == gr

IdleWorker == [pc |-> "idle", xs |-> <<>>, igrad |-> <<>>,
               graph |-> [val |-> [p \in ParamIds |-> 0], grad |-> ZeroGrads]]

\* line 285-291: the positions 0..T-1
Poses == [k \in 1..TrainTokens |-> k - 1]

\* the input gradients backward_all may leave on token_input and pos_input
\* (the two are the inputs of one Add, so they get the same gradient)
InputGrads == {[k \in 1..TrainTokens |-> [e \in 1..TrainDim |-> One]],
               [k \in 1..TrainTokens |-> [e \in 1..TrainDim |-> Int2F(k)]]}

TrainCorpora == {<<1, 1, 0>>, <<0, MaxVocab>>}

EmptyStore == [tensors |-> [p \in ParamIds |-> -1], optimizer |-> -1]

InitTrainCommon ==
    /\ i = 0
    /\ graph = [val |-> [p \in ParamIds |-> 0], grad |-> ZeroGrads]
    /\ optimizer = [step_num |-> 0]
    /\ train_data = EmptyStore
    /\ workers = [w \in 1..t_batch_size |-> IdleWorker]
    /\ begin = [graph |-> graph, optimizer |-> optimizer, train_data |-> train_data]
    /\ tpc = "loop"

InitTrain ==
    /\ t_dataset \in TrainCorpora
    /\ num_batches = MaxSteps
    /\ t_batch_size \in 1..MaxBatch
    /\ InitTrainCommon

\* a long run, past the second checkpoint
InitCkpt ==
    /\ t_dataset = <<1, 1, 0>>
    /\ num_batches = CheckpointEvery + CkptExtra
    /\ t_batch_size = 2
    /\ InitTrainCommon

trainParamsVars == <<t_dataset, num_batches, t_batch_size>>

\* line 278, 280: an iteration starts and the workers are handed out
TrainFork ==
    /\ tpc = "loop"
    /\ i < num_batches
    /\ workers' = [w \in 1..t_batch_size |-> IdleWorker]
    /\ begin' = [graph |-> graph, optimizer |-> optimizer, train_data |-> train_data]
    /\ tpc' = "par"
    /\ UNCHANGED <<trainParamsVars, i, graph, optimizer, train_data>>
    /\ UNCHANGED notTrainVars

\* lines 283-295 of worker w: clone, sample, bind the inputs, forward pass.
\* embed has no table row for an id outside the vocabulary; embed and
\* forward may fail otherwise too.
WStart(w) ==
    /\ tpc = "par"
    /\ workers[w].pc = "idle"
    /\ \E start \in 0..(Len(t_dataset) - 1) :
        LET smp == SampleAt(t_dataset, start, TrainTokens)
        IN \/ /\ \A k \in DOMAIN smp.xs : smp.xs[k] < MaxVocab
              /\ workers' = [workers EXCEPT ![w] =
                    [pc |-> "forwarded", xs |-> smp.xs, igrad |-> <<>>,
                     graph |-> CloneGraph(graph)]]
           \/ workers' = [workers EXCEPT ![w].pc = "failed"]
    /\ UNCHANGED <<trainParamsVars, i, graph, optimizer, train_data, begin, tpc>>
    /\ UNCHANGED notTrainVars

\* lines 296-300 of worker w: zero_grad and backward_all, which may fail
WBackward(w) ==
    /\ tpc = "par"
    /\ workers[w].pc = "forwarded"
    /\ \/ \E ig \in InputGrads :
            workers' = [workers EXCEPT ![w] =
                [@ EXCEPT !.pc = "backwarded", !.igrad = ig,
                          !.graph.grad = [ZeroGrads EXCEPT !["norm_out_bias"] = <<ig[1]>>]]]
       \/ workers' = [workers EXCEPT ![w] = [IdleWorker EXCEPT !.pc = "failed"]]
    /\ UNCHANGED <<trainParamsVars, i, graph, optimizer, train_data, begin, tpc>>
    /\ UNCHANGED notTrainVars

\* lines 301-316 of worker w: the two reconciled table gradients, or None
\* when an unembed fails
Reconciled(x, ig) ==
    LET tok == Unembed(x, ig, Zeros(MaxVocab, TrainDim))
        pos == Unembed(Poses, ig, Zeros(TrainTokens, TrainDim))
    IN IF tok.ok /\ pos.ok
       THEN [ok |-> TRUE, token |-> tok.embedding, pos |-> pos.embedding]
       ELSE [ok |-> FALSE, token |-> <<>>, pos |-> <<>>]

WUnembed(w) ==
    /\ tpc = "par"
    /\ workers[w].pc = "backwarded"
    /\ LET r == Reconciled(workers[w].xs, workers[w].igrad)
       IN IF r.ok
          THEN workers' = [workers EXCEPT ![w] =
                 [@ EXCEPT !.pc = "done",
                           !.graph.grad["token_embedding"] = r.token,
                           !.graph.grad["pos_embedding"] = r.pos]]
          ELSE workers' = [workers EXCEPT ![w] = [IdleWorker EXCEPT !.pc = "failed"]]
    /\ UNCHANGED <<trainParamsVars, i, graph, optimizer, train_data, begin, tpc>>
    /\ UNCHANGED notTrainVars

\* collecting into a Result stops handing out items once one has failed
WSkip(w) ==
    /\ tpc = "par"
    /\ workers[w].pc = "idle"
    /\ \E v \in DOMAIN workers : workers[v].pc = "failed"
    /\ workers' = [workers EXCEPT ![w].pc = "skipped"]
    /\ UNCHANGED <<trainParamsVars, i, graph, optimizer, train_data, begin, tpc>>
    /\ UNCHANGED notTrainVars

\* elementwise a + b of two tensors of one shape
TensorAdd(a, b) == [r \in DOMAIN b |-> RowAdd(IF a = <<>> THEN <<>> ELSE a[r], b[r])]

RECURSIVE TensorSum(_, _)
TensorSum(acc, ts) ==
    IF ts = <<>> THEN acc ELSE TensorSum(TensorAdd(acc, Head(ts)), Tail(ts))

\* the sum of one id's gradient over the graphs, without line 330
SumGrad(grads) == TensorSum(<<>>, grads)

\* lines 326-331: the average of one id's gradient over the graphs
AvgGrad(grads) ==
    LET sum == TensorSum(<<>>, grads)
    IN [r \in DOMAIN sum |->
          [e \in DOMAIN sum[r] |-> FDiv(sum[r][e], Int2F(Len(grads)))]]

\* a join that returns as soon as one worker has retired
SomeRetired == \E w \in DOMAIN workers : workers[w].pc \in {"done", "failed", "skipped"}

\* line 319: collect() returns when no worker is running any more
AllRetired == \A w \in DOMAIN workers : workers[w].pc \in {"done", "failed", "skipped"}

\* a failed step that still folds the workers' gradients into the main graph
TrainJoinErrPartial ==
    /\ tpc = "par"
    /\ AllRetired
    /\ \E w \in DOMAIN workers : workers[w].pc = "failed"
    /\ graph' = [graph EXCEPT !.grad =
          [p \in ParamIds |->
              TensorSum(<<>>, [w \in 1..t_batch_size |-> workers[w].graph.grad[p]])]]
    /\ tpc' = "err"
    /\ UNCHANGED <<trainParamsVars, i, optimizer, train_data, workers, begin>>
    /\ UNCHANGED notTrainVars

\* line 319, the ? on an Err: train returns the error
TrainJoinErr ==
    /\ tpc = "par"
    /\ AllRetired
    /\ \E w \in DOMAIN workers : workers[w].pc = "failed"
    /\ tpc' = "err"
    /\ UNCHANGED <<trainParamsVars, i, graph, optimizer, train_data, workers, begin>>
    /\ UNCHANGED notTrainVars

\* lines 322-337
TrainAggregate ==
    /\ tpc = "par"
    /\ AllRetired
    /\ ~\E w \in DOMAIN workers : workers[w].pc = "failed"
    /\ graph' = [graph EXCEPT !.grad =
          [p \in ParamIds |->
              AvgGrad([w \in 1..t_batch_size |-> workers[w].graph.grad[p]])]]
    /\ tpc' = "aggregated"
    /\ UNCHANGED <<trainParamsVars, i, optimizer, train_data, workers, begin>>
    /\ UNCHANGED notTrainVars

\* Graph::optimize with the optimizer's step: every parameter gets a new
\* value and the step counter advances
OptimizeStep(gr, opt) ==
    [graph |-> [gr EXCEPT !.val = [p \in ParamIds |-> gr.val[p] + 1]],
     optimizer |-> [opt EXCEPT !.step_num = opt.step_num + 1]]

\* lines 338-343; optimize may fail
TrainOptimize ==
    /\ tpc = "aggregated"
    /\ \/ LET o == OptimizeStep(graph, optimizer)
          IN /\ graph' = o.graph
             /\ optimizer' = o.optimizer
             /\ tpc' = "optimized"
       \/ /\ tpc' = "err"
          /\ UNCHANGED <<graph, optimizer>>
    /\ UNCHANGED <<trainParamsVars, i, train_data, workers, begin>>
    /\ UNCHANGED notTrainVars

\* line 344
CheckpointDue(step) == step % CheckpointEvery = 0

\* GPT::save after n of its writes went through: the tensor files in the
\* order of params, then optimizer.dat
SaveFiles(store, gr, opt, n) ==
    [tensors |-> [p \in ParamIds |->
                    IF \E k \in 1..n : k <= Len(TrainParams) /\ TrainParams[k] = p
                    THEN gr.val[p] ELSE store.tensors[p]],
     optimizer |-> IF n > Len(TrainParams) THEN opt.step_num ELSE store.optimizer]

NumFiles == Len(TrainParams) + 1

\* lines 344-347 and the loop's increment: the checkpoint is written, or a
\* write fails and the process panics with the files written so far
TrainSave ==
    /\ tpc = "optimized"
    /\ CheckpointDue(i)
    /\ \/ /\ train_data' = SaveFiles(train_data, graph, optimizer, NumFiles)
          /\ i' = i + 1
          /\ tpc' = "loop"
       \/ /\ \E n \in 0..(NumFiles - 1) :
                train_data' = SaveFiles(train_data, graph, optimizer, n)
          /\ tpc' = "panic"
          /\ UNCHANGED i
    /\ UNCHANGED <<trainParamsVars, graph, optimizer, workers, begin>>
    /\ UNCHANGED notTrainVars

\* the end of an iteration that writes no checkpoint
TrainNoSave ==
    /\ tpc = "optimized"
    /\ ~CheckpointDue(i)
    /\ i' = i + 1
    /\ tpc' = "loop"
    /\ UNCHANGED <<trainParamsVars, graph, optimizer, train_data, workers, begin>>
    /\ UNCHANGED notTrainVars

\* line 355
TrainReturn ==
    /\ tpc = "loop"
    /\ i = num_batches
    /\ tpc' = "done"
    /\ UNCHANGED <<trainParamsVars, i, graph, optimizer, train_data, workers, begin>>
    /\ UNCHANGED notTrainVars

IdleTrain ==
    /\ t_dataset = <<>> /\ num_batches = 0 /\ t_batch_size = 0 /\ i = 0
    /\ graph = <<>> /\ optimizer = <<>> /\ train_data = <<>> /\ workers = <<>>
    /\ begin = <<>> /\ tpc = "idle"

(***************************************************************************)
(* The specifications: one per operation of gpt.rs.                        *)
(***************************************************************************)
InitOfSelect ==
    InitSelect /\ IdleInfer /\ IdleSample /\ IdleUnembed /\ IdleNew /\ IdleTrain

NextSelect == DoSelect

SpecSelect == InitOfSelect /\ [][NextSelect]_vars

InitOfInfer ==
    IdleSelect /\ InitInfer /\ IdleSample /\ IdleUnembed /\ IdleNew /\ IdleTrain

NextInfer == InferBegin \/ InferStep \/ InferReturn

SpecInfer == InitOfInfer /\ [][NextInfer]_vars

InitOfSample ==
    IdleSelect /\ IdleInfer /\ InitSample /\ IdleUnembed /\ IdleNew /\ IdleTrain

NextSample == SampleOne \/ SampleReturn

SpecSample == InitOfSample /\ [][NextSample]_vars

InitOfUnembed ==
    IdleSelect /\ IdleInfer /\ IdleSample /\ InitUnembed /\ IdleNew /\ IdleTrain

NextUnembed == DoUnembed

SpecUnembed == InitOfUnembed /\ [][NextUnembed]_vars

InitOfNew ==
    IdleSelect /\ IdleInfer /\ IdleSample /\ IdleUnembed /\ InitNew /\ IdleTrain

NextNew ==
    \/ NewEmbeddings
    \/ NewLayerNorm
    \/ NewHead
    \/ NewProj
    \/ NewHidden
    \/ NewLayerEnd
    \/ NewFinish

SpecNew == InitOfNew /\ [][NextNew]_vars

InitOfTrain ==
    IdleSelect /\ IdleInfer /\ IdleSample /\ IdleUnembed /\ IdleNew /\ InitTrain

InitOfCkpt ==
    IdleSelect /\ IdleInfer /\ IdleSample /\ IdleUnembed /\ IdleNew /\ InitCkpt

NextTrain ==
    \/ TrainFork
    \/ \E w \in DOMAIN workers : WStart(w)
    \/ \E w \in DOMAIN workers : WBackward(w)
    \/ \E w \in DOMAIN workers : WUnembed(w)
    \/ \E w \in DOMAIN workers : WSkip(w)
    \/ TrainJoinErr
    \/ TrainAggregate
    \/ TrainOptimize
    \/ TrainSave
    \/ TrainNoSave
    \/ TrainReturn

SpecTrain == InitOfTrain /\ [][NextTrain]_vars

SpecCkpt == InitOfCkpt /\ [][NextTrain]_vars


(***************************************************************************)
(* The claims.                                                             *)
(***************************************************************************)
Min(a, b) == IF a < b THEN a ELSE b

\* C1: after every iteration of the generation loop the window has length
\* T, the cursor is min(|chs|, T) and so within [0, T], and the window's
\* first cnt positions are the last cnt tokens of the output sequence, in
\* order; also after the left shift of a full window.
C1_SlidingWindow ==
    ipc \in {"loop", "done"} =>
        /\ Len(context) = num_tokens
        /\ cnt \in 0..num_tokens
        /\ cnt = Min(Len(chs), num_tokens)
        /\ \A k \in 1..cnt : context[k] = chs[Len(chs) - cnt + k]

\* the window was full and has been shifted twice, with a nonzero token in it
C1_Witness ==
    /\ ipc = "loop"
    /\ Len(chs) >= num_tokens + 2
    /\ num_tokens >= 2
    /\ \E k \in 1..cnt : context[k] # 0

\* the sum over the positions bound to id of component e of the rows
PosSum(s, rows, id, e) ==
    LET S[k \in 0..Len(s)] ==
            IF k = 0 THEN Zero
            ELSE FAdd(S[k - 1], IF s[k] = id THEN rows[k][e] ELSE Zero)
    IN S[Len(s)]

PosCount(s, id) == Cardinality({k \in DOMAIN s : s[k] = id})

\* table is the reconciliation of the gradient rows bound by s: a row bound
\* k >= 1 times is the mean of its k rows, a row never bound is zero
IsReconciled(table, s, rows, nrows, E) ==
    /\ Len(table) = nrows
    /\ \A r \in 1..nrows :
        /\ Len(table[r]) = E
        /\ \A e \in 1..E :
            IF PosCount(s, r - 1) = 0 THEN table[r][e] = Zero
            ELSE FMul(table[r][e], Int2F(PosCount(s, r - 1)))
                     = PosSum(s, rows, r - 1, e)

\* C2: unembed on a zeroed table gives a table of the same shape where each
\* row bound at k >= 1 positions is the mean of the k gradient rows at those
\* positions and each row never bound is zero.
C2_UnembedMean ==
    u_pc = "ok" =>
        IsReconciled(u_embedding, u_s, u_s_result, MaxVocab, Len(u_s_result[1]))

\* an id bound twice with different rows, so that mean and sum differ, and an
\* id never bound
C2_Witness ==
    /\ u_pc = "ok"
    /\ \E j, k \in DOMAIN u_s :
        /\ j # k /\ u_s[j] = u_s[k] /\ u_s_result[j] # u_s_result[k]
        /\ u_embedding[u_s[j] + 1] # GroupSum(Embeds(u_s, u_s_result, u_s[j]))
    /\ \E id \in 0..(MaxVocab - 1) : PosCount(u_s, id) = 0

\* the sum over the workers of one component of the gradient of p
WorkerSum(p, r, e) ==
    LET S[w \in 0..t_batch_size] ==
            IF w = 0 THEN Zero ELSE FAdd(S[w - 1], workers[w].graph.grad[p][r][e])
    IN S[t_batch_size]

\* C3: after the aggregation of a step the template's gradient of every
\* parameter is the elementwise mean of that parameter's gradient over the
\* workers' graphs, where a worker's gradient of an embedding table is the
\* reconciled one.
C3_CrossWorkerMean ==
    tpc = "aggregated" =>
        /\ \A p \in ParamIds :
            /\ Len(graph.grad[p]) = ParamRows(p)
            /\ \A r \in 1..ParamRows(p) : \A e \in 1..TrainDim :
                FMul(graph.grad[p][r][e], Int2F(t_batch_size)) = WorkerSum(p, r, e)
        /\ \A w \in 1..t_batch_size :
            /\ IsReconciled(workers[w].graph.grad["token_embedding"],
                            workers[w].xs, workers[w].igrad, MaxVocab, TrainDim)
            /\ IsReconciled(workers[w].graph.grad["pos_embedding"],
                            Poses, workers[w].igrad, TrainTokens, TrainDim)

\* two workers with different gradients have been averaged
C3_Witness ==
    /\ tpc = "aggregated"
    /\ t_batch_size >= 2
    /\ workers[1].graph.grad # workers[2].graph.grad
    /\ \E p \in ParamIds : graph.grad[p] # ZeroGrads[p]

\* C4: when a worker of a step has failed and train has returned the error,
\* the template's gradients and values, the optimizer and the checkpoint are
\* what they were when the step began.
C4_FailedStepChangesNothing ==
    (tpc = "err" /\ \E w \in DOMAIN workers : workers[w].pc = "failed") =>
        /\ graph = begin.graph
        /\ optimizer = begin.optimizer
        /\ train_data = begin.train_data

\* a later step fails with one worker failed and another one finished
C4_Witness ==
    /\ tpc = "err"
    /\ i >= 1
    /\ \E w, v \in DOMAIN workers : workers[w].pc = "failed" /\ workers[v].pc = "done"

\* C5: while the workers run, a step changes one worker's state only and
\* leaves the template and the optimizer alone; the template's gradients
\* are written by the one aggregation of a step and the optimizer is applied
\* by the one update of a step, both with every worker finished; the
\* optimizer has been applied once per completed step.
C5_WorkersIsolated ==
    /\ [](tpc \in {"loop", "par"} => optimizer.step_num = i)
    /\ [][/\ (tpc = "par" /\ tpc' = "par") =>
                /\ graph' = graph
                /\ optimizer' = optimizer
                /\ train_data' = train_data
                /\ Cardinality({w \in DOMAIN workers : workers'[w] # workers[w]}) <= 1
          /\ (graph' # graph \/ optimizer' # optimizer) =>
                /\ \A w \in DOMAIN workers : workers[w].pc = "done"
                /\ workers' = workers
          /\ graph'.grad # graph.grad => (tpc = "par" /\ tpc' = "aggregated")
          /\ tpc' = "aggregated" => tpc = "par"
          /\ optimizer' # optimizer =>
                /\ tpc = "aggregated" /\ tpc' = "optimized"
                /\ optimizer'.step_num = optimizer.step_num + 1
          /\ i' # i => (i' = i + 1 /\ tpc = "optimized")]_vars

\* one worker has finished while another is still running
C5_Witness ==
    /\ tpc = "par"
    /\ \E w, v \in DOMAIN workers :
        workers[w].pc = "done" /\ workers[v].pc \in {"idle", "forwarded", "backwarded"}

OneHotLogits(t, id) ==
    /\ Len(t) > id
    /\ \A k \in DOMAIN t : t[k] = IF k = id + 1 THEN Fin(1) ELSE Fin(0)

OneHotSoftmax(t, id) ==
    /\ Len(t) > id
    /\ \A k \in DOMAIN t : IF k = id + 1 THEN t[k][1] = "fin" ELSE t[k] = NEG_INFINITY

\* C6 as claimed: with temperature 1.0 and a logits row that is one-hot at
\* id 2, select returns id 2 whatever the draw.
C6_OneHotAlways2 ==
    (sel_result # None /\ sel_temperature = One /\ OneHotLogits(sel_t, 2)) =>
        sel_result = Ok(2)

\* C6, amended: with temperature 1.0 and a logits row that is one-hot at id 2,
\* select returns id 2 exactly for the draws below the probability softmax
\* gives id 2, e / (e + V - 1), and another valid id for the other draws; it
\* returns id 2 for every draw when the softmax of the row is one-hot at id 2
\* (every other logit is -inf).
C6_OneHotBelowMass ==
    (sel_result # None /\ sel_temperature = One) =>
        /\ OneHotLogits(sel_t, 2) =>
            /\ sel_result # Panic
            /\ sel_result[2] \in 0..(Len(sel_t) - 1)
            /\ sel_result = Ok(2) <=>
                 FLt(sel_dice, Rat(ExpMilli(Fin(1)),
                                   ExpMilli(Fin(1)) + (Len(sel_t) - 1) * ExpMilli(Fin(0))))
        /\ OneHotSoftmax(sel_t, 2) => sel_result = Ok(2)

\* id 2 returned for a draw of 3/4 on a row whose softmax is one-hot
C6_Witness ==
    /\ sel_result = Ok(2)
    /\ sel_temperature = One
    /\ OneHotSoftmax(sel_t, 2)
    /\ sel_dice = Rat(3, 4)

\* softmax of the row is NaN: a NaN logit, or -inf everywhere
NaNRow(t) == (\E k \in DOMAIN t : t[k] = NAN) \/ (\A k \in DOMAIN t : t[k] = NEG_INFINITY)

\* C7 as claimed: for every row and every temperature in (0, 1] select
\* returns an id in [0, V); the scan runs past all ids only when the
\* temperature is above 1.
C7_PanicOnlyAboveOne ==
    sel_result # None =>
        /\ sel_result = Panic => FLt(One, sel_temperature)
        /\ sel_result # Panic => sel_result[2] \in 0..(Len(sel_t) - 1)

\* C7, amended: select returns an id in [0, V) exactly when the draw is
\* below the accumulated probability mass: for a row whose softmax is a
\* distribution (mass 1) at every draw below 1, so at every draw of a
\* temperature in (0, 1]; the scan runs past all ids when the draw is 1 or
\* more (temperature above 1), and at every temperature when the softmax of
\* the row is NaN.
C7_PanicIffMassNotReached ==
    sel_result # None =>
        /\ sel_result = Panic <=> (NaNRow(sel_t) \/ ~FLt(sel_dice, One))
        /\ sel_result # Panic => sel_result[2] \in 0..(Len(sel_t) - 1)

\* the scan ran past all ids at a temperature below 1
C7_Witness ==
    /\ sel_result = Panic
    /\ sel_temperature = Rat(1, 2)
    /\ NaNRow(sel_t)

Ascending(s) == \A j, k \in DOMAIN s : j < k => s[j] < s[k]

Learnable ==
    {id \in 0..(Len(g) - 1) :
        g[id + 1].alloc /\ g[id + 1].name \notin {"token_input", "pos_input"}}

\* the parameter count of the architecture
AnalyticCount(h) ==
    h.V * h.E + h.T * h.E
    + h.L * (2 * h.E + h.H * 3 * h.E * h.S + (h.H * h.S * h.E + h.E) + 2 * h.E
             + (4 * h.E * h.E + 4 * h.E) + h.F * (16 * h.E * h.E + 4 * h.E)
             + (4 * h.E * h.E + h.E))
    + 2 * h.E + h.E * h.V + h.V

ParamsExact ==
    /\ \A j, k \in DOMAIN params : j # k => params[j] # params[k]
    /\ Range(params) = Learnable
    /\ \A k \in DOMAIN params :
         g[params[k] + 1].name \notin {"token_input", "pos_input"}
    /\ NumParams = AnalyticCount(hp)

\* C8 as claimed: params holds every learnable tensor once, in allocation
\* order, and no placeholder; num_params is the learnable element count.
C8_ParamsInAllocationOrder ==
    npc = "done" => (ParamsExact /\ Ascending(params))

\* C8, amended: params holds every learnable tensor exactly once and no
\* placeholder, and num_params is the learnable element count; the list is
\* in allocation order only for a model without layers (in a layer the
\* hidden stages come before the projection, and the second
\* normalization's scale and bias come last).
C8_ParamsExactlyLearnable ==
    npc = "done" => (ParamsExact /\ (Ascending(params) <=> hp.L = 0))

\* a model with two layers, two heads and a hidden stage
C8_Witness ==
    /\ npc = "done"
    /\ hp.L >= 2 /\ hp.H >= 2 /\ hp.F >= 1

\* the step whose update produced the last checkpoint due before step n
LastCheckpoint(n) == ((n - 1) \div CheckpointEvery) * CheckpointEvery + 1

\* C9: a checkpoint is written at the end of step i exactly when i is a
\* multiple of the interval, after the update, with every parameter and the
\* optimizer as they are then; so the stored parameters and the stored
\* optimizer state are at any time those of one completed step.
C9_CheckpointOfOneStep ==
    /\ (tpc = "loop" /\ i >= 1) =>
          /\ train_data.optimizer = LastCheckpoint(i)
          /\ \A p \in ParamIds : train_data.tensors[p] = LastCheckpoint(i)
    /\ \A p \in ParamIds :
          (train_data.tensors[p] # -1 /\ train_data.optimizer # -1) =>
              train_data.tensors[p] = train_data.optimizer

\* the part of C9 that holds: between steps the checkpoint is that of the
\* last step that was a multiple of the interval
C9_CheckpointBetweenSteps ==
    (tpc = "loop" /\ i >= 1) =>
        /\ train_data.optimizer = LastCheckpoint(i)
        /\ \A p \in ParamIds : train_data.tensors[p] = LastCheckpoint(i)

\* C10: for a non-empty corpus of length n, sample b drawn at start s has
\* xs[j] = corpus[(s + j) mod n] and ys[j] = corpus[(s + j + 1) mod n] for
\* j < context_size, so ys[j] = xs[j + 1].
C10_CyclicWindows ==
    (spc \in {"loop", "done"} /\ dataset # <<>>) =>
        /\ Len(xs) = Len(starts) * context_size
        /\ Len(ys) = Len(starts) * context_size
        /\ \A b \in DOMAIN starts : \A j \in 0..(context_size - 1) :
            LET at == (b - 1) * context_size + j + 1
            IN /\ xs[at] = dataset[((starts[b] + j) % Len(dataset)) + 1]
               /\ ys[at] = dataset[((starts[b] + j + 1) % Len(dataset)) + 1]
               /\ j < context_size - 1 => ys[at] = xs[at + 1]

\* two samples of a corpus shorter than the window, the second from a
\* start past the first id
C10_Witness ==
    /\ spc = "done"
    /\ Len(starts) >= 2
    /\ starts[2] > 0
    /\ Len(dataset) >= 2
    /\ Len(dataset) < context_size + 1
    /\ xs # ys

=============================================================================
